---- MODULE Spec2Model ----
(***************************************************************************)
(* Model of two lints of the dylint examples:                              *)
(*                                                                         *)
(*  - unnecessary_conversion_for_trait/src/usage_check.rs: UsageVisitor,   *)
(*    usage_found_in and is_used_later (specification Spec);               *)
(*  - missing_doc_comment_openai/src/lib.rs: check_item, send_request and  *)
(*    extract_doc_comment (specification SpecDoc).                         *)
(*                                                                         *)
(* A HIR node is identified by its HirId, modelled as a pair               *)
(* <<fragment, local>>.  Fragment 0 holds the parameter patterns of the    *)
(* function, fragments 1..Len(stmts) the top-level statements of the body  *)
(* block and fragment Len(stmts)+1 its trailing expression.                *)
(***************************************************************************)
EXTENDS Integers, Sequences, FiniteSets, TLC

VARIABLES
    \* ---- is_used_later: inputs ----
    stmts,      \* body.value.stmts: the shape of each top-level statement
    tail,       \* body.value.expr: the shape of the trailing expression
    hir_id,     \* the HirId argument
    call_span,  \* the call_span argument, [lo, hi]
    \* ---- is_used_later: execution ----
    pc,         \* position in is_used_later
    i,          \* index of the statement the for loop is at
    stack,      \* pending visit_* calls of the traversal, first is next
    found,      \* visitor.found
    result,     \* the returned bool (meaningful when pc = "done")
    \* ---- is_used_later: history ----
    visited,    \* nodes a visit_* method was called on
    examined,   \* expressions that reached the comparison of line 25
    matched,    \* the node that set visitor.found, or NoId
    searched,   \* fragments the visitor was started on
    \* ---- check_item ----
    item,       \* the item and the environment of one check_item call
    dpc,        \* position in check_item
    doc_comment,\* the Option<String> of line 183: <<>> is None, <<c>> is Some(c)
    response,   \* the Result of send_request
    diags       \* the warnings and lints emitted, in order

usageVars == <<stmts, tail, hir_id, call_span, pc, i, stack, found, result,
               visited, examined, matched, searched>>
docVars == <<item, dpc, doc_comment, response, diags>>
vars == <<stmts, tail, hir_id, call_span, pc, i, stack, found, result,
          visited, examined, matched, searched,
          item, dpc, doc_comment, response, diags>>

----------------------------------------------------------------------------
(* Bounds *)

MaxStmts == 2
MaxCallLen == 4
MaxChoices == 1
MaxLines == 2

----------------------------------------------------------------------------
(* The typed syntax tree *)

NoId == <<0, 0>>
XId == <<0, 1>>
YId == <<0, 2>>
Bindings == {XId, YId}

N(k, kids, lo, hi, res) ==
    [kind |-> k, kids |-> kids, lo |-> lo, hi |-> hi, res |-> res]

StmtShapes == {"LetCall", "Closure2", "BlockYX", "NoRef"}
TailShapes == {"none", "PathX", "CallX"}

\* The nodes of one statement, spans relative to its start.  kids are in
\* the order intravisit walks them.
StmtShape(name) ==
    CASE name = "LetCall" ->      \* let v = f(x);
           << N("StmtLet", <<3, 2>>, 0, 4, NoId),
              N("Pat", <<>>, 0, 1, NoId),
              N("Call", <<4>>, 1, 3, NoId),
              N("Path", <<>>, 2, 3, XId) >>
      [] name = "Closure2" ->     \* || || x;
           << N("StmtExpr", <<2>>, 0, 4, NoId),
              N("Closure", <<3>>, 0, 3, NoId),
              N("Closure", <<4>>, 1, 3, NoId),
              N("Path", <<>>, 2, 3, XId) >>
      [] name = "BlockYX" ->      \* { y; x }
           << N("StmtExpr", <<2>>, 0, 4, NoId),
              N("Block", <<3, 5>>, 0, 4, NoId),
              N("StmtExpr", <<4>>, 1, 2, NoId),
              N("Path", <<>>, 1, 2, YId),
              N("Path", <<>>, 2, 3, XId) >>
      [] name = "NoRef" ->        \* p(0);
           << N("StmtExpr", <<2>>, 0, 4, NoId),
              N("Call", <<3>>, 0, 3, NoId),
              N("Lit", <<>>, 1, 2, NoId) >>

TailShape(name) ==
    CASE name = "none" -> << >>
      [] name = "PathX" ->        \* x
           << N("Path", <<>>, 0, 1, XId) >>
      [] name = "CallX" ->        \* g(x)
           << N("Call", <<2>>, 0, 3, NoId),
              N("Path", <<>>, 2, 3, XId) >>

\* Source columns one top-level statement occupies: every statement shape
\* spans the same number of columns.
StmtWidth == StmtShape("NoRef")[1].hi

TailFrag == Len(stmts) + 1
Frags == 1..TailFrag
Template(f) == IF f <= Len(stmts) THEN StmtShape(stmts[f]) ELSE TailShape(tail)
FragBase(f) == (f - 1) * StmtWidth
HasFrag(f) == Template(f) # << >>

Node(id) ==
    LET t == Template(id[1])[id[2]]
    IN  [kind |-> t.kind,
         kids |-> [k \in DOMAIN t.kids |-> <<id[1], t.kids[k]>>],
         lo |-> t.lo + FragBase(id[1]),
         hi |-> t.hi + FragBase(id[1]),
         res |-> t.res]

BodyNodes == UNION {{<<f, j>> : j \in DOMAIN Template(f)} : f \in Frags}
Root(f) == <<f, 1>>
Span(id) == [lo |-> Node(id).lo, hi |-> Node(id).hi]

ExprKinds == {"Call", "Path", "Closure", "Block", "Lit"}
IsExpr(id) == Node(id).kind \in ExprKinds
IsStmt(id) == Node(id).kind \in {"StmtLet", "StmtExpr"}
IsPat(id) == Node(id).kind = "Pat"

\* A reversed comparison: the statements before the call are the ones searched.
SpanGt_reversed(a, b) == b.lo > a.lo \/ (b.lo = a.lo /\ b.hi > a.hi)

\* rustc_span::Span is ordered as its SpanData: by lo, then by hi.
SpanGt(a, b) == a.lo > b.lo \/ (a.lo = b.lo /\ a.hi > b.hi)

\* A walk that does not enter nested bodies (NestedFilter = None).
walk_expr_no_bodies(id) ==
    IF Node(id).kind = "Closure" THEN << >> ELSE Node(id).kids

\* intravisit::walk_expr: the sub-expressions in source order; for a
\* closure, the nested body (NestedFilter = OnlyBodies).
walk_expr(id) == Node(id).kids

\* intravisit::walk_stmt: for a let, the initializer and then the pattern;
\* for an expression statement, the expression.
walk_stmt(id) == Node(id).kids

\* intravisit::walk_pat: a binding pattern holds no expression.
walk_pat(id) == Node(id).kids

\* Lines 18-32 as a function of the pending visits and the found flag: the
\* value of found when the traversal has returned.
RECURSIVE visit(_, _, _)
visit(target, pending, fnd) ==
    IF pending = << >> THEN fnd
    ELSE LET n == Head(pending)
         IN  IF IsExpr(n)
               THEN IF fnd THEN visit(target, Tail(pending), fnd)
                    ELSE IF n = target THEN visit(target, Tail(pending), TRUE)
                    ELSE visit(target, walk_expr(n) \o Tail(pending), fnd)
               ELSE IF IsStmt(n)
                      THEN visit(target, walk_stmt(n) \o Tail(pending), fnd)
                      ELSE visit(target, walk_pat(n) \o Tail(pending), fnd)

\* Lines 36-47: a fresh visitor on one node.
usage_found_in(target, node) == visit(target, <<node>>, FALSE)

----------------------------------------------------------------------------
(* is_used_later *)

BoundedSeqs(S, n) == UNION {[1..k -> S] : k \in 0..n}

NoResponse == [sent |-> FALSE, ok |-> FALSE, error |-> "", choices |-> << >>]

DocIdle ==
    /\ item = [exported |-> FALSE, hidden |-> FALSE, is_fn |-> FALSE,
               has_doc |-> FALSE, api_key |-> "unset", snippet |-> FALSE]
    /\ dpc = "idle"
    /\ doc_comment = << >>
    /\ response = NoResponse
    /\ diags = << >>

Init ==
    /\ stmts \in BoundedSeqs(StmtShapes, MaxStmts)
    /\ tail \in TailShapes
    /\ hir_id \in Bindings \cup BodyNodes
    /\ \E lo \in 0..(Len(stmts) * StmtWidth + 2), len \in 1..MaxCallLen :
          call_span = [lo |-> lo, hi |-> lo + len]
    /\ pc = "start"
    /\ i = 0
    /\ stack = << >>
    /\ found = FALSE
    /\ result = FALSE
    /\ visited = {}
    /\ examined = {}
    /\ matched = NoId
    /\ searched = {}
    /\ DocIdle

inputs == <<stmts, tail, hir_id, call_span>>

\* Lines 55-57: the enclosing body is found; the visitor is created.
ResolveBody ==
    /\ pc = "start"
    /\ pc' = "loop"
    /\ i' = 1
    /\ found' = FALSE
    /\ UNCHANGED <<inputs, stack, result, visited, examined, matched, searched, docVars>>

\* Line 56: no body for the owner, unwrap() panics.
ResolveBodyFail ==
    /\ pc = "start"
    /\ pc' = "panic"
    /\ UNCHANGED <<inputs, i, stack, found, result, visited, examined, matched,
                   searched, docVars>>

\* Lines 60-61: a statement whose span is not greater than call_span.
StmtSkip ==
    /\ pc = "loop"
    /\ i <= Len(stmts)
    /\ ~SpanGt(Span(Root(i)), call_span)
    /\ i' = i + 1
    /\ UNCHANGED <<inputs, pc, stack, found, result, visited, examined, matched,
                   searched, docVars>>

\* Lines 61-62: visitor.visit_stmt(stmt) is called.
StmtVisit ==
    /\ pc = "loop"
    /\ i <= Len(stmts)
    /\ SpanGt(Span(Root(i)), call_span)
    /\ pc' = "walk"
    /\ stack' = <<Root(i)>>
    /\ searched' = searched \cup {i}
    /\ UNCHANGED <<inputs, i, found, result, visited, examined, matched, docVars>>

\* The loop without the check of lines 63-65.
StmtReturn_no_check ==
    /\ pc = "walk"
    /\ stack = << >>
    /\ pc' = "loop"
    /\ i' = i + 1
    /\ UNCHANGED <<inputs, stack, found, result, visited, examined, matched,
                   searched, docVars>>

\* Lines 63-65: visit_stmt has returned.
StmtReturn ==
    /\ pc = "walk"
    /\ stack = << >>
    /\ IF found
         THEN pc' = "done" /\ result' = TRUE /\ i' = i
         ELSE pc' = "loop" /\ result' = result /\ i' = i + 1
    /\ UNCHANGED <<inputs, stack, found, visited, examined, matched, searched, docVars>>

\* Lines 70-71 and 79: no trailing expression, or one not greater than call_span.
TailSkip ==
    /\ pc = "loop"
    /\ i > Len(stmts)
    /\ ~(HasFrag(TailFrag) /\ SpanGt(Span(Root(TailFrag)), call_span))
    /\ pc' = "done"
    /\ result' = FALSE
    /\ UNCHANGED <<inputs, i, stack, found, visited, examined, matched, searched, docVars>>

\* Lines 70-72: visitor.visit_expr(expr) is called on the trailing expression.
TailVisit ==
    /\ pc = "loop"
    /\ i > Len(stmts)
    /\ HasFrag(TailFrag)
    /\ SpanGt(Span(Root(TailFrag)), call_span)
    /\ pc' = "walkTail"
    /\ stack' = <<Root(TailFrag)>>
    /\ searched' = searched \cup {TailFrag}
    /\ UNCHANGED <<inputs, i, found, result, visited, examined, matched, docVars>>

\* Lines 73-79: visit_expr has returned.
TailReturn ==
    /\ pc = "walkTail"
    /\ stack = << >>
    /\ pc' = "done"
    /\ result' = found
    /\ UNCHANGED <<inputs, i, stack, found, visited, examined, matched, searched, docVars>>

Walking == pc \in {"walk", "walkTail"} /\ stack # << >>

\* Lines 20-22: visit_expr on an expression once found is set.
VisitExprFound ==
    /\ Walking
    /\ IsExpr(Head(stack))
    /\ found
    /\ stack' = Tail(stack)
    /\ visited' = visited \cup {Head(stack)}
    /\ UNCHANGED <<inputs, pc, i, found, result, examined, matched, searched, docVars>>

\* Lines 25-28: the expression's own HirId is the one looked for.
VisitExprMatch ==
    /\ Walking
    /\ IsExpr(Head(stack))
    /\ ~found
    /\ Head(stack) = hir_id
    /\ found' = TRUE
    /\ matched' = Head(stack)
    /\ stack' = Tail(stack)
    /\ visited' = visited \cup {Head(stack)}
    /\ examined' = examined \cup {Head(stack)}
    /\ UNCHANGED <<inputs, pc, i, result, searched, docVars>>

\* Line 31: intravisit::walk_expr visits the sub-expressions.
VisitExprWalk ==
    /\ Walking
    /\ IsExpr(Head(stack))
    /\ ~found
    /\ Head(stack) # hir_id
    /\ stack' = walk_expr(Head(stack)) \o Tail(stack)
    /\ visited' = visited \cup {Head(stack)}
    /\ examined' = examined \cup {Head(stack)}
    /\ UNCHANGED <<inputs, pc, i, found, result, matched, searched, docVars>>

\* The default visit_stmt: intravisit::walk_stmt.
VisitStmt ==
    /\ Walking
    /\ IsStmt(Head(stack))
    /\ stack' = walk_stmt(Head(stack)) \o Tail(stack)
    /\ visited' = visited \cup {Head(stack)}
    /\ UNCHANGED <<inputs, pc, i, found, result, examined, matched, searched, docVars>>

\* The default visit_pat: intravisit::walk_pat.
VisitPat ==
    /\ Walking
    /\ IsPat(Head(stack))
    /\ stack' = walk_pat(Head(stack)) \o Tail(stack)
    /\ visited' = visited \cup {Head(stack)}
    /\ UNCHANGED <<inputs, pc, i, found, result, examined, matched, searched, docVars>>

Next ==
    \/ ResolveBody
    \/ ResolveBodyFail
    \/ StmtSkip
    \/ StmtVisit
    \/ StmtReturn
    \/ TailSkip
    \/ TailVisit
    \/ TailReturn
    \/ VisitExprFound
    \/ VisitExprMatch
    \/ VisitExprWalk
    \/ VisitStmt
    \/ VisitPat

Spec == Init /\ [][Next]_vars

----------------------------------------------------------------------------
(* Properties of is_used_later *)

\* An expression that refers to binding b.
RefersTo(n, b) == Node(n).kind = "Path" /\ Node(n).res = b

RECURSIVE Subtree(_)
Subtree(id) ==
    {id} \cup UNION {Subtree(Node(id).kids[k]) : k \in DOMAIN Node(id).kids}

InClosure(n) ==
    \E c \in BodyNodes : Node(c).kind = "Closure" /\ n \in Subtree(c) \ {c}

FragLo(f) == Node(Root(f)).lo
RealFrags == {f \in Frags : HasFrag(f)}

\* References to the target that start at or after the end of the call.
LaterRefs == {n \in BodyNodes : RefersTo(n, hir_id) /\ Node(n).lo >= call_span.hi}

\* C1: is_used_later returns true iff some expression that refers to the
\* binding lies lexically after the call, at any nesting depth.
C1_UsedLaterIffLaterRef ==
    (pc = "done" /\ hir_id \in Bindings) => (result <=> LaterRefs # {})

\* C2: when a top-level statement or the trailing expression begins after
\* the call position and contains a reference to the binding, the result
\* is true.
C2_LaterStatementRefFound ==
    (/\ pc = "done"
     /\ hir_id \in Bindings
     /\ \E f \in RealFrags :
           /\ FragLo(f) > call_span.lo
           /\ \E n \in Subtree(Root(f)) : RefersTo(n, hir_id))
    => result

\* C3: of the fragments the function got to, each one that starts exactly
\* at the call's start is searched, whatever its end, and each one that
\* starts before it is skipped.
C3_InclusiveLowerBound ==
    pc = "done" =>
      \A f \in RealFrags :
        f <= i => /\ (FragLo(f) = call_span.lo => f \in searched)
                  /\ (FragLo(f) < call_span.lo => f \notin searched)

\* The nodes that denote the target: the references to it and the node
\* whose own HirId it is.
Denotes(n) == RefersTo(n, hir_id) \/ n = hir_id

\* C4: no node that begins before the call position is visited or sets
\* found, and when every node denoting the target starts before the call
\* position the result is false.
C4_NoLookBack ==
    /\ \A n \in visited : Node(n).lo >= call_span.lo
    /\ (matched # NoId => Node(matched).lo >= call_span.lo)
    /\ (/\ pc = "done"
        /\ \A n \in BodyNodes : Denotes(n) => Node(n).lo < call_span.lo)
       => ~result

C4_Witness ==
    /\ pc = "done"
    /\ ~result
    /\ searched # {}
    /\ \E n \in BodyNodes : Denotes(n)
    /\ \A n \in BodyNodes : Denotes(n) => Node(n).lo < call_span.lo

\* C5: an examined node sets found iff it is a reference expression whose
\* resolved binding is the target.
C5_MatchRule ==
    \A n \in examined : (matched = n) <=> RefersTo(n, hir_id)

\* C6: when the only references to the binding after the call lie in
\* closure bodies of later top-level statements, the result is true.
C6_ClosureCapture ==
    (/\ pc = "done"
     /\ hir_id \in Bindings
     /\ LaterRefs # {}
     /\ \A n \in LaterRefs :
           /\ InClosure(n)
           /\ n[1] <= Len(stmts)
           /\ FragLo(n[1]) >= call_span.hi)
    => result

\* The fragments is_used_later runs the visitor on when nothing matches.
AfterFrags == {f \in RealFrags : SpanGt(Span(Root(f)), call_span)}

\* The answer of a traversal that visits every node of every 'after'
\* fragment: some expression there has the HirId looked for.
FullTraversalResult ==
    \E f \in AfterFrags : \E n \in Subtree(Root(f)) : IsExpr(n) /\ n = hir_id

\* C7: the result with the early exits equals the result of the full
\* traversal.
C7_EarlyExitSameResult == pc = "done" => (result <=> FullTraversalResult)

\* A run in which both early exits took effect: an expression was visited
\* after found was set, and an 'after' fragment was never searched.
C7_Witness ==
    /\ pc = "done"
    /\ result
    /\ \E n \in visited : IsExpr(n) /\ n \notin examined /\ n # matched
    /\ \E f \in AfterFrags : f \notin searched

\* C8: is_used_later does not panic when no body is resolved.
C8_NoPanic == pc # "panic"

\* The visitor is about to be started on a fragment.
StartOfVisit ==
    /\ pc \in {"walk", "walkTail"}
    /\ stack = <<Root(i)>>
    /\ Root(i) \notin visited

FreshVisitorResult == \E f \in AfterFrags : usage_found_in(hir_id, Root(f))

\* C9: found is false whenever the shared visitor is started on a
\* fragment, found never goes back to false, and the result is that of a
\* fresh visitor per 'after' fragment.
C9_SharedVisitorAsFresh ==
    /\ [](StartOfVisit => ~found)
    /\ [][found => found']_vars
    /\ [](pc = "done" => (result <=> FreshVisitorResult))

\* The shared visitor is started on a second fragment.
C9_Witness == StartOfVisit /\ searched # {} /\ searched # {i}

----------------------------------------------------------------------------
(* missing_doc_comment_openai: check_item *)

\* A text is the sequence of its lines(), a line the sequence of its
\* characters.  An Option is << >> for None and <<v>> for Some(v).
\* STOP is a newline and three backticks, written "bt" here.
STOP == <<"\n", "bt", "bt", "bt">>
MOCK_COMPLETION == << <<"/", "/", "/", " ", "A">> >>

Lines == { <<"/", "/", "/", "a">>, <<"/", "/", "!", "b">>,
           <<"/", "/", "c">>, <<"d">> }
Texts == BoundedSeqs(Lines, MaxLines)
ApiKeys == {"unset", "sk-key", "test"}

starts_with(line, prefix) ==
    /\ Len(line) >= Len(prefix)
    /\ SubSeq(line, 1, Len(prefix)) = prefix

is_doc_line(line) ==
    starts_with(line, <<"/", "/", "!">>) \/ starts_with(line, <<"/", "/", "/">>)

RECURSIVE take_while_doc(_)
take_while_doc(ls) ==
    IF ls = << >> \/ ~is_doc_line(Head(ls)) THEN << >>
    ELSE <<Head(ls)>> \o take_while_doc(Tail(ls))

\* Lines 342-346: an inner doc comment becomes an outer one.
doc_line(line) ==
    IF starts_with(line, <<"/", "/", "!">>)
      THEN <<"/", "/", "/">> \o SubSeq(line, 4, Len(line))
      ELSE line

\* Lines 327-354.  panicked stands for the failed assert_ne! of line 332,
\* value is the Option returned otherwise.
extract_doc_comment(text) ==
    IF text # << >> /\ text[Len(text)] = STOP
      THEN [panicked |-> TRUE, value |-> << >>]
      ELSE LET taken == take_while_doc(text)
               comment == [k \in DOMAIN taken |-> doc_line(taken[k])]
           IN  [panicked |-> FALSE,
                value |-> IF comment = << >> THEN << >> ELSE <<comment>>]

\* Lines 393-396.
testing(api_key) == api_key = "test"

\* Lines 257-286: the outcomes of send_request.
send_request(api_key) ==
    IF testing(api_key)
      THEN {[sent |-> TRUE, ok |-> TRUE, error |-> "", choices |-> <<MOCK_COMPLETION>>]}
      ELSE {[sent |-> TRUE, ok |-> FALSE, error |-> e, choices |-> << >>] :
               e \in {"serialize", "curl", "status", "deserialize"}}
           \cup {[sent |-> TRUE, ok |-> TRUE, error |-> "", choices |-> c] :
                    c \in BoundedSeqs(Texts, MaxChoices)}

LintMsg == "exported function lacks a doc comment"

UsageIdle ==
    /\ stmts = << >>
    /\ tail = "none"
    /\ hir_id = NoId
    /\ call_span = [lo |-> 0, hi |-> 0]
    /\ pc = "idle"
    /\ i = 0
    /\ stack = << >>
    /\ found = FALSE
    /\ result = FALSE
    /\ visited = {}
    /\ examined = {}
    /\ matched = NoId
    /\ searched = {}

InitDoc ==
    /\ UsageIdle
    /\ item \in [exported : BOOLEAN, hidden : BOOLEAN, is_fn : BOOLEAN,
                  has_doc : BOOLEAN, api_key : ApiKeys, snippet : BOOLEAN]
    /\ dpc = "start"
    /\ doc_comment = << >>
    /\ response = NoResponse
    /\ diags = << >>

\* Lines 147-181: the item is one the lint is for.
Candidate == item.exported /\ ~item.hidden /\ item.is_fn /\ ~item.has_doc

\* Lines 147-181: one of the four early returns.
GateReturn ==
    /\ dpc = "start"
    /\ ~Candidate
    /\ dpc' = "done"
    /\ UNCHANGED <<item, doc_comment, response, diags, usageVars>>

GatePass ==
    /\ dpc = "start"
    /\ Candidate
    /\ dpc' = "key"
    /\ UNCHANGED <<item, doc_comment, response, diags, usageVars>>

\* Line 183: OPENAI_API_KEY is not set.
NoApiKey ==
    /\ dpc = "key"
    /\ item.api_key = "unset"
    /\ doc_comment' = << >>
    /\ dpc' = "lint"
    /\ UNCHANGED <<item, response, diags, usageVars>>

\* Line 184: snippet_opt gives None.
NoSnippet ==
    /\ dpc = "key"
    /\ item.api_key # "unset"
    /\ ~item.snippet
    /\ doc_comment' = << >>
    /\ dpc' = "lint"
    /\ UNCHANGED <<item, response, diags, usageVars>>

\* Lines 186-188: the request is sent.
SendRequest ==
    /\ dpc = "key"
    /\ item.api_key # "unset"
    /\ item.snippet
    /\ response' \in send_request(item.api_key)
    /\ dpc' = "response"
    /\ UNCHANGED <<item, doc_comment, diags, usageVars>>

\* The Err arm returning from check_item instead of from the closure.
RequestFailed_returns ==
    /\ dpc = "response"
    /\ ~response.ok
    /\ diags' = Append(diags, [kind |-> "warn", msg |-> response.error, suggestion |-> << >>])
    /\ doc_comment' = << >>
    /\ dpc' = "done"
    /\ UNCHANGED <<item, response, usageVars>>

\* Lines 190-193: the request failed.
RequestFailed ==
    /\ dpc = "response"
    /\ ~response.ok
    /\ diags' = Append(diags, [kind |-> "warn", msg |-> response.error, suggestion |-> << >>])
    /\ doc_comment' = << >>
    /\ dpc' = "lint"
    /\ UNCHANGED <<item, response, usageVars>>

\* Lines 196-206: the first choice, if any, is looked at.
Extract ==
    /\ dpc = "response"
    /\ response.ok
    /\ LET r == IF response.choices = << >>
                   THEN [panicked |-> FALSE, value |-> << >>]
                   ELSE extract_doc_comment(response.choices[1])
       IN  IF r.panicked
             THEN dpc' = "panic" /\ UNCHANGED <<doc_comment, diags>>
             ELSE /\ doc_comment' = r.value
                  /\ dpc' = "lint"
                  /\ diags' = IF r.value = << >>
                                THEN Append(diags, [kind |-> "warn",
                                                    msg |-> "Could not extract doc comment from response",
                                                    suggestion |-> << >>])
                                ELSE diags
    /\ UNCHANGED <<item, response, usageVars>>

\* Lines 209-226: the lint, with the suggestion if there is one.
EmitLint ==
    /\ dpc = "lint"
    /\ diags' = Append(diags, [kind |-> "lint", msg |-> LintMsg, suggestion |-> doc_comment])
    /\ dpc' = "done"
    /\ UNCHANGED <<item, doc_comment, response, usageVars>>

NextDoc ==
    \/ GateReturn
    \/ GatePass
    \/ NoApiKey
    \/ NoSnippet
    \/ SendRequest
    \/ RequestFailed
    \/ Extract
    \/ EmitLint

SpecDoc == InitDoc /\ [][NextDoc]_vars

----------------------------------------------------------------------------
(* Properties of check_item *)

LintsEmitted == SelectSeq(diags, LAMBDA d : d.kind = "lint")
WarnsEmitted == SelectSeq(diags, LAMBDA d : d.kind = "warn")

\* The response yields a doc comment.
Extractable ==
    /\ response.ok
    /\ response.choices # << >>
    /\ ~extract_doc_comment(response.choices[1]).panicked
    /\ extract_doc_comment(response.choices[1]).value # << >>

\* C10: for a candidate function the lint is reported exactly once, as the
\* last diagnostic; it carries a suggestion only when the key is set, the
\* snippet is there, the request succeeded and a non-empty comment was
\* extracted; a failed request or an un-extractable response gives one
\* warning followed by the lint without suggestion; the check never aborts.
C10_LintReportedOnce ==
    /\ dpc # "panic"
    /\ (dpc = "done" /\ Candidate) =>
          /\ Len(LintsEmitted) = 1
          /\ diags[Len(diags)].kind = "lint"
          /\ diags[Len(diags)].msg = LintMsg
          /\ diags[Len(diags)].suggestion # << >> =>
                /\ item.api_key # "unset"
                /\ item.snippet
                /\ Extractable
                /\ diags[Len(diags)].suggestion =
                       extract_doc_comment(response.choices[1]).value
                /\ diags[Len(diags)].suggestion[1] # << >>
          /\ (response.sent /\ ~Extractable) =>
                /\ Len(diags) = 2
                /\ diags[1].kind = "warn"
                /\ diags[2].suggestion = << >>

\* A failed request: a warning, then the lint without a suggestion.
C10_Witness ==
    /\ dpc = "done"
    /\ Candidate
    /\ response.sent
    /\ ~response.ok
    /\ Len(diags) = 2
    /\ diags[1].kind = "warn"
    /\ diags[2].kind = "lint"

====
